---- MODULE Spec2Model ----
(***************************************************************************)
(* A model of mufetch: the terminal image renderer (src/src/display.py),   *)
(* the search command (src/src/commands/search.py, mufetch.py), the token  *)
(* cache of the catalog client (src/src/spotify_client.py) and the         *)
(* side-by-side compositor (src/src/display.py).                           *)
(*                                                                         *)
(* Each component has its own specification (SpecRender, SpecSearch,       *)
(* SpecClient, SpecCompose); the variables of the other components stay    *)
(* at their initial values.                                                *)
(***************************************************************************)
EXTENDS Integers, Sequences, FiniteSets, TLC

VARIABLES
    \* ImageRenderer (display.py)
    width,          \* self.width
    height,         \* self.height
    image_url,      \* argument of the last render_image_lines call
    env,            \* outcomes of the external collaborators in that call
    lines,          \* the list the call returned
    outcome,        \* "none" | "returned" | "raised"
    path,           \* which return statement produced `lines`
    temp_files,     \* temporary files the call created that still exist
    \* handle_search (commands/search.py) and main (mufetch.py)
    pc,             \* position in handle_search
    cursor,         \* "shown" | "hidden": terminal cursor visibility
    search_type,    \* args.type
    args_size,      \* args.size
    image_size,     \* the local image_size
    searched,       \* kinds for which client.search was called, in order
    attempts,       \* per search: how the attempt of that kind ended
    output,         \* messages and displays printed, in order
    pending,        \* exception in flight through the finally block
    exit_status,    \* process exit status, -1 while running
    \* SpotifyClient (spotify_client.py)
    access_token,   \* self.access_token, 0 stands for None
    token_expiry,   \* self.token_expiry
    now,            \* time.time()
    exchanges,      \* number of token-exchange calls issued
    last,           \* what the last _make_request call did
    \* _display_side_by_side_with_links (display.py)
    image_lines,
    info_lines,
    links,
    printed,        \* rows printed by the last call, in order
    \* SpotifyClient._parse_* (spotify_client.py)
    data,           \* the API payload handed to a parse function
    record,         \* the dataclass it returned
    \* Config.load_config (config.py)
    config_file,    \* the YAML file's content, "absent" when there is none
    environ,        \* the two environment variables
    config,         \* the Config object load_config returned
    \* DisplayFormatter._format_duration, _format_info_line (display.py)
    fmt_arg,        \* the argument of the last formatting call
    fmt_result,     \* what it returned
    \* DisplayFormatter.display_track/_album/_artist (display.py)
    entity,         \* the Track, Album or Artist being displayed
    lookups,        \* client calls the display issued, with their outcome
    panel           \* the info_lines the display built

renderVars == <<width, height, image_url, env, lines, outcome, path, temp_files>>
searchVars == <<pc, cursor, search_type, args_size, image_size, searched,
                attempts, output, pending, exit_status>>
clientVars == <<access_token, token_expiry, now, exchanges, last>>
composeVars == <<image_lines, info_lines, links, printed>>
parseVars == <<data, record>>
configVars == <<config_file, environ, config>>
formatVars == <<fmt_arg, fmt_result>>
panelVars == <<entity, lookups, panel>>
auxVars == <<parseVars, configVars, formatVars, panelVars>>
vars == <<renderVars, searchVars, clientVars, composeVars, auxVars>>

Max(a, b) == IF a >= b THEN a ELSE b
Min(a, b) == IF a <= b THEN a ELSE b

(***************************************************************************)
(* Sizes.  The command line clamps --size to MinSize..MaxSize.             *)
(***************************************************************************)
MinSize == 15
MaxSize == 35

(***************************************************************************)
(* ImageRenderer.  A line is modelled by what it shows (txt) and by its    *)
(* printable width w, the number of columns left once the escape           *)
(* sequences are removed.                                                  *)
(***************************************************************************)
Line(t, n) == [txt |-> t, w |-> n]

PlaceholderHeight == 20
PlaceholderPad == 33
BoxWidth == 34

\* The 8 bordered lines: one leading space and a 33-column box row each.
BoxLines ==
    << Line("top", BoxWidth), Line("side", BoxWidth), Line("side", BoxWidth),
       Line("NO IMAGE", BoxWidth), Line("AVAILABLE", BoxWidth),
       Line("side", BoxWidth), Line("side", BoxWidth), Line("bottom", BoxWidth) >>

\* while len(lines) < n: lines.append(' ' * cols)
RECURSIVE PadLines(_, _, _)
PadLines(ls, n, cols) ==
    IF Len(ls) < n THEN PadLines(Append(ls, Line("blank", cols)), n, cols) ELSE ls

\* _get_placeholder_lines pads to the fixed 20 lines, not to self.height
\* (the variant GetPlaceholderLinesToHeight pads to the height).
GetPlaceholderLinesToHeight(h) == PadLines(BoxLines, h, PlaceholderPad)
GetPlaceholderLines(h) == PadLines(BoxLines, PlaceholderHeight, PlaceholderPad)

\* One line per row: a padding column and `w` two-column colour blocks.
GetBlockArtLines(w, h) == [y \in 1..h |-> Line("block", 1 + 2 * w)]

\* stdout.strip().split('\n'): leading and trailing empty lines go, and an
\* empty text still splits into one empty line.
RECURSIVE StripTrailing(_)
StripTrailing(s) ==
    IF s # <<>> /\ s[Len(s)] = 0 THEN StripTrailing(SubSeq(s, 1, Len(s) - 1)) ELSE s
RECURSIVE StripLeading(_)
StripLeading(s) ==
    IF s # <<>> /\ s[1] = 0 THEN StripLeading(Tail(s)) ELSE s
StripSplit(stdout) ==
    LET s == StripLeading(StripTrailing(stdout))
    IN IF s = <<>> THEN <<0>> ELSE s

\* _is_chafa_available: True on a clean exit, False on the two exception
\* types it catches, and any other exception of subprocess.run escapes.
IsChafaAvailable(probe) ==
    CASE probe = "ok" -> "True"
      [] probe \in {"CalledProcessError", "FileNotFoundError"} -> "False"
      [] OTHER -> "raise"

\* _render_with_chafa: None (<<>>) on any failure, else the renderer's lines
\* left-padded by one column and forced to `h` lines.
RenderWithChafa(w, h, e) ==
    IF e.temp # "ok" \/ e.chafa # "ok" THEN <<>>
    ELSE LET raw == StripSplit(e.stdout)
             padded == [i \in 1..Len(raw) |-> Line("chafa", 1 + raw[i])]
             filled == PadLines(padded, h, w * 2 + 1)
         IN IF Len(filled) > h THEN SubSeq(filled, 1, h) ELSE filled

\* The temporary files of one call that exist when it returns.
\* _download_to_temp creates one (delete=False) when the download succeeds;
\* _render_with_chafa removes it with os.unlink after the renderer ran, a
\* statement the `except Exception: return None` path never reaches.
TempFilesLeft(url, e) ==
    LET created == IF url # "" /\ IsChafaAvailable(e.probe) = "True" /\ e.temp = "ok"
                   THEN 1 ELSE 0
        unlinked == IF created = 1 /\ e.chafa = "ok" THEN 1 ELSE 0
    IN created - unlinked

\* render_image_lines: [outcome, path, lines].
RenderImageLines(w, h, url, e) ==
    IF url = "" THEN
        [outcome |-> "returned", path |-> "no_url", lines |-> GetPlaceholderLines(h)]
    ELSE LET avail == IsChafaAvailable(e.probe)
             chafa == IF avail = "True" THEN RenderWithChafa(w, h, e) ELSE <<>>
         IN IF avail = "raise" THEN
                [outcome |-> "raised", path |-> "probe", lines |-> <<>>]
            ELSE IF chafa # <<>> THEN
                [outcome |-> "returned", path |-> "chafa", lines |-> chafa]
            ELSE IF e.download = "ok" /\ e.decode = "ok" THEN
                [outcome |-> "returned", path |-> "block", lines |-> GetBlockArtLines(w, h)]
            ELSE
                [outcome |-> "returned", path |-> "recovery", lines |-> GetPlaceholderLines(h)]

\* What the external renderer prints for a `2w x h` request.  It fits the
\* image into the grid: a full grid (square image), fewer rows of full
\* width (wide image), `h` rows of fewer columns (tall image); its text may
\* end in an empty line, and a row more than asked for is cut off.
ChafaRows(h) == {h - 1, h, h + 1}
ChafaCols(w) == {w, 2 * w}
ChafaStdouts(w, h) ==
    { [i \in 1..r |-> 2 * w] : r \in ChafaRows(h) }
    \cup { [i \in 1..h |-> c] : c \in ChafaCols(w) }
    \cup { Append([i \in 1..h |-> 2 * w], 0) }

Probes == {"ok", "CalledProcessError", "FileNotFoundError", "PermissionError"}
Results == {"ok", "fail"}

NoEnv == [probe |-> "none", temp |-> "none", chafa |-> "none", stdout |-> <<>>,
          download |-> "none", decode |-> "none"]

\* The environments of one call, cut down to what the call consults.
Envs(w, h) ==
    { [NoEnv EXCEPT !.probe = p, !.download = d, !.decode = IF d = "ok" THEN c ELSE "none"] :
        p \in Probes \ {"ok"}, d \in Results, c \in Results }
    \cup { [NoEnv EXCEPT !.probe = "ok", !.temp = "fail", !.download = d,
                          !.decode = IF d = "ok" THEN c ELSE "none"] :
        d \in Results, c \in Results }
    \cup { [NoEnv EXCEPT !.probe = "ok", !.temp = "ok", !.chafa = "fail", !.download = d,
                          !.decode = IF d = "ok" THEN c ELSE "none"] :
        d \in Results, c \in Results }
    \cup { [NoEnv EXCEPT !.probe = "ok", !.temp = "ok", !.chafa = "ok", !.stdout = s] :
        s \in ChafaStdouts(w, h) }

RenderIdle ==
    /\ width = 0 /\ height = 0 /\ image_url = "" /\ env = NoEnv
    /\ lines = <<>> /\ outcome = "none" /\ path = "none" /\ temp_files = 0

\* ImageRenderer(size): width and height are the one size parameter.
RenderInit ==
    /\ \E size \in MinSize..MaxSize : width = size /\ height = size
    /\ image_url = "" /\ env = NoEnv
    /\ lines = <<>> /\ outcome = "none" /\ path = "none" /\ temp_files = 0

\* One render_image_lines call on the renderer built at construction.
Render ==
    /\ width # 0 /\ pc = "idle"
    /\ \E url \in {"", "u"}, e \in Envs(width, height) :
         LET r == RenderImageLines(width, height, url, e)
         IN /\ image_url' = url
            /\ env' = IF url = "" THEN NoEnv ELSE e
            /\ lines' = r.lines
            /\ outcome' = r.outcome
            /\ path' = r.path
            /\ temp_files' = TempFilesLeft(url, e)
    /\ UNCHANGED <<width, height, searchVars, clientVars, composeVars, auxVars>>

(***************************************************************************)
(* handle_search, search_auto, search_specific and the part of main that   *)
(* runs the command.                                                       *)
(***************************************************************************)
Kinds == <<"track", "album", "artist">>
SearchTypes == {"auto", "track", "album", "artist"}

\* Requested sizes: the valid range and SizeMargin values on either side,
\* with 0 and -1 (argparse accepts any integer).
SizeMargin == 5
RequestedSizes == {-1, 0} \cup ((MinSize - SizeMargin)..(MaxSize + SizeMargin))

\* if image_size < 15: image_size = 15; if image_size > 35: image_size = 35
\* (the variant ClampSizeNoUpper lacks the second test).
ClampSizeNoUpper(s) == IF s < MinSize THEN MinSize ELSE s
ClampSize(s) ==
    LET a == IF s < MinSize THEN MinSize ELSE s
    IN IF a > MaxSize THEN MaxSize ELSE a

\* How one attempt of a kind can end: the search found nothing, the search
\* request failed, the detail fetch failed (album and artist are fetched by
\* id, a track is parsed from the hit), parsing or displaying the hit raised
\* before anything was printed (a malformed hit, render_image_lines raising,
\* see IsChafaAvailable), or it displayed.
AttemptOutcomes(k) ==
    {"empty", "search_failed", "display_failed", "displayed"}
    \cup (IF k = "track" THEN {} ELSE {"fetch_failed"})
Failures == {"search_failed", "fetch_failed", "display_failed"}

\* search_auto, one kind: `return` after a display, and `except Exception:
\* pass` turns every failure into trying the next kind.  (Variants: one
\* without the except clause, one without the return.)
AutoAttemptPropagate(o) ==
    CASE o = "displayed" -> "return"
      [] o = "empty" -> "next"
      [] OTHER -> "raise"
AutoAttemptNoReturn(o) == "next"
AutoAttempt(o) ==
    CASE o = "displayed" -> "return"
      [] OTHER -> "next"

\* search_specific: an empty result prints the kind's message, a failure
\* prints "Search failed" and calls sys.exit(1).  (The variant treats a
\* failure as an empty result.)
SpecificAttemptSwallow(o) ==
    CASE o = "displayed" -> "return"
      [] OTHER -> "empty"
SpecificAttempt(o) ==
    CASE o = "displayed" -> "return"
      [] o = "empty" -> "empty"
      [] OTHER -> "exit1"

Display(k) == [msg |-> "display", kind |-> k]
Message(m, k) == [msg |-> m, kind |-> k]

SearchIdle ==
    /\ pc = "idle" /\ cursor = "shown" /\ search_type = "auto"
    /\ args_size = 0 /\ image_size = 0
    /\ searched = <<>> /\ attempts = <<>> /\ output = <<>>
    /\ pending = "none" /\ exit_status = -1

SearchInit ==
    /\ pc = "start" /\ cursor = "shown"
    /\ search_type \in SearchTypes
    /\ args_size \in RequestedSizes /\ image_size = args_size
    /\ searched = <<>> /\ attempts = <<>> /\ output = <<>>
    /\ pending = "none" /\ exit_status = -1

\* lines 20-23: no credentials, exit 1 before the cursor is touched.
NoCredentials ==
    /\ pc = "start"
    /\ pc' = "done"
    /\ output' = Append(output, Message("No Spotify credentials found!", "none"))
    /\ exit_status' = 1
    /\ UNCHANGED <<cursor, search_type, args_size, image_size, searched, attempts,
                   pending, renderVars, clientVars, composeVars, auxVars>>

\* line 29: print('\033[?25l', end=''), before the try statement.
HideCursor ==
    /\ pc = "start"
    /\ cursor' = "hidden"
    /\ pc' = "hidden"
    /\ UNCHANGED <<search_type, args_size, image_size, searched, attempts, output,
                   pending, exit_status, renderVars, clientVars, composeVars, auxVars>>

\* lines 30-40: enter the try, clamp the size, build the formatter (and its
\* ImageRenderer, whose width and height are the size).
EnterTry ==
    /\ pc = "hidden"
    /\ image_size' = ClampSize(image_size)
    /\ width' = image_size' /\ height' = image_size'
    /\ pc' = "searching"
    /\ UNCHANGED <<cursor, search_type, args_size, searched, attempts, output,
                   pending, exit_status, image_url, env, lines, outcome, path,
                   temp_files,
                   clientVars, composeVars, auxVars>>

\* search_auto: the attempt of the next kind.
TryKind ==
    /\ pc = "searching" /\ search_type = "auto"
    /\ Len(searched) < Len(Kinds)
    /\ LET k == Kinds[Len(searched) + 1] IN
       \E o \in AttemptOutcomes(k) :
         LET r == AutoAttempt(o) IN
         /\ searched' = Append(searched, k)
         /\ attempts' = Append(attempts, o)
         /\ output' =
              CASE o = "displayed" -> Append(output, Display(k))
                [] r = "next" /\ k = "artist" ->
                     Append(output, Message("No results found for", "none"))
                [] OTHER -> output
         /\ pc' =
              CASE r = "return" -> "returned"
                [] r = "raise" -> "finally"
                [] r = "next" /\ k = "artist" -> "returned"
                [] OTHER -> "searching"
         /\ pending' = IF r = "raise" THEN "Exception" ELSE pending
    /\ UNCHANGED <<cursor, search_type, args_size, image_size, exit_status,
                   renderVars, clientVars, composeVars, auxVars>>

\* search_specific: one search of the requested kind.
SearchSpecific ==
    /\ pc = "searching" /\ search_type # "auto"
    /\ \E o \in AttemptOutcomes(search_type) :
         LET r == SpecificAttempt(o) IN
         /\ searched' = Append(searched, search_type)
         /\ attempts' = Append(attempts, o)
         /\ output' =
              CASE o = "displayed" -> Append(output, Display(search_type))
                [] r = "empty" -> Append(output, Message("No <kind>s found for", search_type))
                [] OTHER -> Append(output, Message("Search failed", "none"))
         /\ pc' = IF r = "exit1" THEN "finally" ELSE "returned"
         /\ pending' = IF r = "exit1" THEN "SystemExit1" ELSE pending
    /\ UNCHANGED <<cursor, search_type, args_size, image_size, exit_status,
                   renderVars, clientVars, composeVars, auxVars>>

\* line 49: the last statement of the try body.
LeaveTry ==
    /\ pc = "returned"
    /\ pc' = "finally"
    /\ UNCHANGED <<cursor, search_type, args_size, image_size, searched, attempts,
                   output, pending, exit_status, renderVars, clientVars, composeVars, auxVars>>

\* line 53 (finally: show the cursor), then main's handlers (mufetch.py
\* 60-67): KeyboardInterrupt exits 0, any other Exception exits 1,
\* SystemExit keeps its status.
Finally ==
    /\ pc = "finally"
    /\ cursor' = "shown"
    /\ pc' = "done"
    /\ output' =
         CASE pending = "KeyboardInterrupt" -> Append(output, Message("Operation cancelled.", "none"))
           [] pending = "Exception" -> Append(output, Message("Error", "none"))
           [] OTHER -> output
    /\ exit_status' = IF pending \in {"SystemExit1", "Exception"} THEN 1 ELSE 0
    /\ UNCHANGED <<search_type, args_size, image_size, searched, attempts, pending,
                   renderVars, clientVars, composeVars, auxVars>>

\* Ctrl-C.  Python raises KeyboardInterrupt at the statement being run:
\* inside the try body it passes through the finally block; after line 29
\* and before the try statement is entered it goes straight to main.
Interrupt ==
    /\ pc \in {"hidden", "searching", "returned"}
    /\ IF pc = "hidden"
         THEN /\ pc' = "done"
              /\ output' = Append(output, Message("Operation cancelled.", "none"))
              /\ exit_status' = 0
              /\ UNCHANGED pending
         ELSE /\ pc' = "finally"
              /\ pending' = "KeyboardInterrupt"
              /\ UNCHANGED <<output, exit_status>>
    /\ UNCHANGED <<cursor, search_type, args_size, image_size, searched, attempts,
                   renderVars, clientVars, composeVars, auxVars>>

(***************************************************************************)
(* SpotifyClient: the cached bearer token.  Time is a counter; a token is  *)
(* named by the number of the exchange that returned it, 0 is None.        *)
(***************************************************************************)
MaxNow == 6
MaxExpiresIn == 3
MaxExchanges == 4

ClientIdle ==
    /\ access_token = 0 /\ token_expiry = 0 /\ now = 1 /\ exchanges = 0
    /\ last = [exchanged |-> FALSE, auth_status |-> 0, sent |-> FALSE, bearer |-> 0,
               raised |-> "none"]

\* __init__: access_token = None, token_expiry = 0.
ClientInit == ClientIdle

\* _authenticate line 95: `if time.time() < self.token_expiry: return`
\* (the variant ExchangeNeededAlways lacks the early return).
ExchangeNeededAlways(t, expiry) == TRUE
ExchangeNeeded(t, expiry) == ~(t < expiry)

\* time.time() moves on between calls.
Tick ==
    /\ pc = "idle" /\ width = 0 /\ image_lines = <<>>
    /\ now < MaxNow
    /\ now' = now + 1
    /\ UNCHANGED <<access_token, token_expiry, exchanges, last,
                   renderVars, searchVars, composeVars, auxVars>>

\* The variant does not raise on a non-200 status of the token endpoint.
AuthenticateNoRaise(t, token, expiry, status, expires_in, fresh) ==
    IF ~ExchangeNeeded(t, expiry) \/ status # 200
    THEN [exchanged |-> ExchangeNeeded(t, expiry), raised |-> FALSE,
          access_token |-> token, token_expiry |-> expiry]
    ELSE [exchanged |-> TRUE, raised |-> FALSE,
          access_token |-> fresh, token_expiry |-> t + expires_in]

\* _authenticate: return at once while the token is unexpired; else post to
\* the token endpoint, raise on a non-200 status before anything is
\* assigned, and otherwise store the token and its expiry.
Authenticate(t, token, expiry, status, expires_in, fresh) ==
    IF ~ExchangeNeeded(t, expiry)
    THEN [exchanged |-> FALSE, raised |-> FALSE,
          access_token |-> token, token_expiry |-> expiry]
    ELSE IF status # 200
    THEN [exchanged |-> TRUE, raised |-> TRUE,
          access_token |-> token, token_expiry |-> expiry]
    ELSE [exchanged |-> TRUE, raised |-> FALSE,
          access_token |-> fresh, token_expiry |-> t + expires_in]

\* _make_request: _authenticate, then, unless it raised, the data request
\* carrying the cached token, raising on a non-200 status.
MakeRequest ==
    /\ pc = "idle" /\ width = 0 /\ image_lines = <<>>
    /\ exchanges < MaxExchanges
    /\ \E auth_status \in {200, 401}, expires_in \in 0..MaxExpiresIn,
          data_status \in {200, 500} :
         LET auth == Authenticate(now, access_token, token_expiry, auth_status,
                                  expires_in, exchanges + 1)
         IN /\ exchanges' = IF auth.exchanged THEN exchanges + 1 ELSE exchanges
            /\ access_token' = auth.access_token
            /\ token_expiry' = auth.token_expiry
            /\ last' = [exchanged |-> auth.exchanged,
                        auth_status |-> IF auth.exchanged THEN auth_status ELSE 0,
                        sent |-> ~auth.raised,
                        bearer |-> IF auth.raised THEN 0 ELSE auth.access_token,
                        raised |-> IF auth.raised THEN "auth"
                                   ELSE IF data_status # 200 THEN "request" ELSE "none"]
    /\ UNCHANGED <<now, renderVars, searchVars, composeVars, auxVars>>

(***************************************************************************)
(* _display_side_by_side_with_links.  An image line is its 1-based index,  *)
(* an info line too; 0 is the blank that stands in for a missing one (46   *)
(* spaces on the image side, "" on the info side).  A link is what it      *)
(* points at and whether 'spotify' occurs in its text.                     *)
(***************************************************************************)
MaxInfoLines == 16
MinInfoLines == 3
ImageLens == MinSize..MaxSize
InfoLens == MinInfoLines..MaxInfoLines

LinkSet == [id : {"catalog", "image"}, spotify : BOOLEAN]
NoLink == [id |-> "", spotify |-> FALSE]
LinkLists ==
    {<<>>} \cup { <<a>> : a \in LinkSet }
    \cup { <<p[1], p[2]>> : p \in { q \in LinkSet \X LinkSet : q[1].id # q[2].id } }

\* lines 417-439: the link row's text, as the sequence of links it shows.
RECURSIVE PickLinks(_, _, _)
PickLinks(ls, spotify_link, image_link) ==
    IF ls = <<>> THEN <<spotify_link, image_link>>
    ELSE IF Head(ls).spotify THEN PickLinks(Tail(ls), Head(ls), image_link)
         ELSE PickLinks(Tail(ls), spotify_link, Head(ls))
LinkLine(ls) ==
    LET picked == PickLinks(ls, NoLink, NoLink)
        spotify_link == IF picked[1] = NoLink /\ ls # <<>> THEN ls[1] ELSE picked[1]
        image_link == IF picked[2] = NoLink /\ Len(ls) > 1 THEN ls[2] ELSE picked[2]
    IN IF spotify_link # NoLink /\ image_link # NoLink THEN <<spotify_link, image_link>>
       ELSE IF spotify_link # NoLink THEN <<spotify_link>>
       ELSE <<image_link>>

Row(k, img, right) == [kind |-> k, image |-> img, right |-> right]

\* target_lines = max_lines - 2
TargetLines(img, info) == Max(Len(img), Len(info)) - 2

\* The variant starts the remaining image rows one line late when there is
\* no link row.
DisplaySideBySideSkipping(img, info, ls) ==
    LET target_lines == TargetLines(img, info)
        content == [i \in 1..target_lines |->
                      Row("content",
                          IF i <= Len(img) THEN img[i] ELSE 0,
                          IF i <= Len(info) THEN <<info[i]>> ELSE <<0>>)]
    IN IF ls # <<>> THEN
           content
           \o << Row("link",
                     IF target_lines < Len(img) THEN img[target_lines + 1] ELSE 0,
                     LinkLine(ls)) >>
           \o [i \in 1..Max(0, Len(img) - (target_lines + 1)) |->
                 Row("rest", img[target_lines + 1 + i], <<>>)]
       ELSE
           content
           \o [i \in 1..Max(0, Len(img) - (target_lines + 1)) |->
                 Row("rest", img[target_lines + 1 + i], <<>>)]

\* The rows printed, in order (the inputs have at least 2 image lines, so
\* target_lines is never negative).
DisplaySideBySideWithLinks(img, info, ls) ==
    LET target_lines == TargetLines(img, info)
        content == [i \in 1..target_lines |->
                      Row("content",
                          IF i <= Len(img) THEN img[i] ELSE 0,
                          IF i <= Len(info) THEN <<info[i]>> ELSE <<0>>)]
    IN IF ls # <<>> THEN
           content
           \o << Row("link",
                     IF target_lines < Len(img) THEN img[target_lines + 1] ELSE 0,
                     LinkLine(ls)) >>
           \o [i \in 1..Max(0, Len(img) - (target_lines + 1)) |->
                 Row("rest", img[target_lines + 1 + i], <<>>)]
       ELSE
           content
           \o [i \in 1..Max(0, Len(img) - target_lines) |->
                 Row("rest", img[target_lines + i], <<>>)]

ComposeIdle ==
    /\ image_lines = <<>> /\ info_lines = <<>> /\ links = <<>> /\ printed = <<>>

ComposeInit == ComposeIdle

\* One call with the image grid, the panel and the links of a display.
Compose ==
    /\ pc = "idle" /\ width = 0 /\ exchanges = 0 /\ now = 1
    /\ printed = <<>>
    /\ \E n \in ImageLens, m \in InfoLens, ls \in LinkLists :
         /\ image_lines' = [i \in 1..n |-> i]
         /\ info_lines' = [i \in 1..m |-> i]
         /\ links' = ls
         /\ printed' = DisplaySideBySideWithLinks(image_lines', info_lines', ls)
    /\ UNCHANGED <<renderVars, searchVars, clientVars, auxVars>>

(***************************************************************************)
(* The pure functions: each has its inputs drawn at Init and one action    *)
(* that applies it.                                                        *)
(***************************************************************************)
NoCall == [fn |-> "none"]
ParseIdle == data = NoCall /\ record = NoCall
ConfigIdle == config_file = NoCall /\ environ = NoCall /\ config = NoCall
FormatIdle == fmt_arg = NoCall /\ fmt_result = NoCall
PanelIdle == entity = NoCall /\ lookups = <<>> /\ panel = <<>>
AuxIdle == ParseIdle /\ ConfigIdle /\ FormatIdle /\ PanelIdle

(***************************************************************************)
(* SpotifyClient._parse_*.  A payload is a function from the keys present  *)
(* to their values; the dataclass is a record.  None is the string "None"  *)
(* in a string field, and a `none` flag in the list field Album.tracks.    *)
(***************************************************************************)
None == "None"
EmptyDict == <<>>

\* dict.get(key, default)
Get(d, k, default) == IF k \in DOMAIN d THEN d[k] ELSE default

ParseImage(d) ==
    [url |-> Get(d, "url", ""), height |-> Get(d, "height", 0),
     width |-> Get(d, "width", 0)]

ParseExternalUrls(d) == [spotify |-> Get(d, "spotify", "")]
ParseFollowers(d) == [total |-> Get(d, "total", 0)]

ParseArtist(d) ==
    LET imgs == Get(d, "images", <<>>) IN
    [id |-> Get(d, "id", ""),
     name |-> Get(d, "name", ""),
     images |-> [i \in 1..Len(imgs) |-> ParseImage(imgs[i])],
     genres |-> Get(d, "genres", <<>>),
     popularity |-> Get(d, "popularity", 0),
     followers |-> ParseFollowers(Get(d, "followers", EmptyDict)),
     external_urls |-> ParseExternalUrls(Get(d, "external_urls", EmptyDict)),
     type |-> Get(d, "type", "artist")]

\* album_data.get('album_group') and track_data.get('preview_url') name no
\* default, and `tracks` stays None unless 'tracks' holds 'items'.  (The
\* variant ParseAlbumLabelNone drops the default of 'label' as well.)
RECURSIVE ParseAlbumWith(_, _), ParseTrack(_)
ParseAlbumWith(d, label_default) ==
    LET imgs == Get(d, "images", <<>>)
        arts == Get(d, "artists", <<>>)
        has_items == "tracks" \in DOMAIN d /\ "items" \in DOMAIN d["tracks"]
        items == IF has_items THEN d["tracks"]["items"] ELSE <<>>
    IN
    [id |-> Get(d, "id", ""),
     name |-> Get(d, "name", ""),
     artists |-> [i \in 1..Len(arts) |-> ParseArtist(arts[i])],
     images |-> [i \in 1..Len(imgs) |-> ParseImage(imgs[i])],
     release_date |-> Get(d, "release_date", ""),
     release_date_precision |-> Get(d, "release_date_precision", ""),
     total_tracks |-> Get(d, "total_tracks", 0),
     genres |-> Get(d, "genres", <<>>),
     popularity |-> Get(d, "popularity", 0),
     album_type |-> Get(d, "album_type", ""),
     album_group |-> Get(d, "album_group", None),
     label |-> Get(d, "label", label_default),
     external_urls |-> ParseExternalUrls(Get(d, "external_urls", EmptyDict)),
     tracks |-> [none |-> ~has_items,
                 items |-> [i \in 1..Len(items) |-> ParseTrack(items[i])]]]
ParseTrack(d) ==
    LET arts == Get(d, "artists", <<>>) IN
    [id |-> Get(d, "id", ""),
     name |-> Get(d, "name", ""),
     artists |-> [i \in 1..Len(arts) |-> ParseArtist(arts[i])],
     album |-> ParseAlbumWith(Get(d, "album", EmptyDict), ""),
     duration_ms |-> Get(d, "duration_ms", 0),
     popularity |-> Get(d, "popularity", 0),
     track_number |-> Get(d, "track_number", 0),
     disc_number |-> Get(d, "disc_number", 0),
     explicit |-> Get(d, "explicit", FALSE),
     preview_url |-> Get(d, "preview_url", None),
     external_urls |-> ParseExternalUrls(Get(d, "external_urls", EmptyDict)),
     available_markets |-> Get(d, "available_markets", <<>>)]

ParseAlbumLabelNone(d) == ParseAlbumWith(d, None)
ParseAlbum(d) == ParseAlbumWith(d, "")

\* Complete payloads, as the API sends them.
FullImage == [url |-> "https://i.scdn.co/image/1", height |-> 640, width |-> 640]
FullArtist ==
    [id |-> "a1", name |-> "Queen", images |-> <<FullImage, EmptyDict>>,
     genres |-> <<"rock">>, popularity |-> 80, followers |-> [total |-> 1500],
     external_urls |-> [spotify |-> "https://open.spotify.com/artist/a1"],
     type |-> "artist"]
BareTrack == [id |-> "t2", name |-> "Track 2"]
FullAlbum ==
    [id |-> "b1", name |-> "Album", artists |-> <<[id |-> "a1", name |-> "Queen"]>>,
     images |-> <<FullImage>>, release_date |-> "1975-11-21",
     release_date_precision |-> "day", total_tracks |-> 12, genres |-> <<"rock">>,
     popularity |-> 70, album_type |-> "album", album_group |-> "album",
     label |-> "EMI", external_urls |-> [spotify |-> "https://open.spotify.com/album/b1"],
     tracks |-> [items |-> <<BareTrack>>]]
FullTrack ==
    [id |-> "t1", name |-> "Track", artists |-> <<[id |-> "a1", name |-> "Queen"]>>,
     album |-> [id |-> "b1", name |-> "Album"], duration_ms |-> 125000,
     popularity |-> 60, track_number |-> 3, disc_number |-> 1, explicit |-> TRUE,
     preview_url |-> "https://p.scdn.co/1",
     external_urls |-> [spotify |-> "https://open.spotify.com/track/t1"],
     available_markets |-> <<"US">>]

\* The payloads with only the keys of `present` (restrictions of `full`).
Payloads(full) == { [k \in present |-> full[k]] : present \in SUBSET DOMAIN full }

\* An album payload may also carry a 'tracks' object without 'items'.
AlbumPayloads ==
    Payloads(FullAlbum)
    \cup { [d EXCEPT !["tracks"] = [total |-> 1]] :
             d \in { e \in Payloads(FullAlbum) : "tracks" \in DOMAIN e } }

ParseInit ==
    /\ data \in { [fn |-> "_parse_image", d |-> d] : d \in Payloads(FullImage) }
           \cup { [fn |-> "_parse_artist", d |-> d] : d \in Payloads(FullArtist) }
           \cup { [fn |-> "_parse_album", d |-> d] : d \in AlbumPayloads }
           \cup { [fn |-> "_parse_track", d |-> d] : d \in Payloads(FullTrack) }
    /\ record = NoCall

\* One call of a parse function on the payload.
Parse ==
    /\ data # NoCall /\ record = NoCall
    /\ record' =
         [fn |-> data.fn,
          value |-> CASE data.fn = "_parse_image" -> ParseImage(data.d)
                      [] data.fn = "_parse_artist" -> ParseArtist(data.d)
                      [] data.fn = "_parse_album" -> ParseAlbum(data.d)
                      [] OTHER -> ParseTrack(data.d)]
    /\ UNCHANGED <<data, configVars, formatVars, panelVars,
                   renderVars, searchVars, clientVars, composeVars>>

(***************************************************************************)
(* Specifications.                                                         *)
(***************************************************************************)
RenderNext == Render
SearchNext ==
    \/ NoCredentials \/ HideCursor \/ EnterTry \/ TryKind \/ SearchSpecific
    \/ LeaveTry \/ Finally \/ Interrupt
ClientNext == Tick \/ MakeRequest
ComposeNext == Compose

InitRender == RenderInit /\ SearchIdle /\ ClientIdle /\ ComposeIdle /\ AuxIdle
InitSearch == RenderIdle /\ SearchInit /\ ClientIdle /\ ComposeIdle /\ AuxIdle
InitClient == RenderIdle /\ SearchIdle /\ ClientInit /\ ComposeIdle /\ AuxIdle
InitCompose == RenderIdle /\ SearchIdle /\ ClientIdle /\ ComposeInit /\ AuxIdle

(***************************************************************************)
(* Config.load_config.  A string is a sequence of characters, 0 being the  *)
(* whitespace character; the file's YAML mapping and the process           *)
(* environment are functions from the names present to strings.            *)
(***************************************************************************)
MaxStrLen == 2
Strings == UNION { [1..n -> {0, 1, 2}] : n \in 0..MaxStrLen }

\* str.strip()
Strip(str) == StripLeading(StripTrailing(str))

Credentials == {"spotify_client_id", "spotify_client_secret"}
EnvName(cred) ==
    IF cred = "spotify_client_id" THEN "MUFETCH_SPOTIFY_CLIENT_ID"
    ELSE "MUFETCH_SPOTIFY_CLIENT_SECRET"
EnvNames == { EnvName(cred) : cred \in Credentials }
Dicts(keys) == UNION { [present -> Strings] : present \in SUBSET keys }

\* The file's value when it is non-empty after strip(), else the
\* environment's.
LoadCredential(file, getenv, cred) ==
    LET from_file == IF file.exists THEN Strip(Get(file.data, cred, <<>>)) ELSE <<>>
    IN IF from_file = <<>> THEN Strip(Get(getenv, EnvName(cred), <<>>)) ELSE from_file

LoadConfig(file, getenv) ==
    [fn |-> "load_config",
     spotify_client_id |-> LoadCredential(file, getenv, "spotify_client_id"),
     spotify_client_secret |-> LoadCredential(file, getenv, "spotify_client_secret")]

ConfigInit ==
    /\ config_file \in { [fn |-> "file", exists |-> FALSE, data |-> EmptyDict] }
                        \cup { [fn |-> "file", exists |-> TRUE, data |-> d] :
                                 d \in Dicts(Credentials) }
    /\ environ \in { [fn |-> "environ", vars |-> e] : e \in Dicts(EnvNames) }
    /\ config = NoCall

Load ==
    /\ config_file # NoCall /\ config = NoCall
    /\ config' = LoadConfig(config_file, environ.vars)
    /\ UNCHANGED <<config_file, environ, parseVars, formatVars, panelVars,
                   renderVars, searchVars, clientVars, composeVars>>

\* C12: a credential whose environment variable is set to a non-empty value
\* is loaded with that value (stripped), whatever the config file holds.
C12_EnvironmentOverridesFile ==
    config # NoCall =>
        \A cred \in Credentials :
            (/\ EnvName(cred) \in DOMAIN environ.vars
             /\ Strip(environ.vars[EnvName(cred)]) # <<>>)
            => config[cred] = Strip(environ.vars[EnvName(cred)])

(***************************************************************************)
(* DisplayFormatter._format_duration and _format_info_line.  A number is   *)
(* written as the sequence of its decimal digits.                          *)
(***************************************************************************)
MaxSeconds == 125
MaxLabelLen == 16
Remainders == {0, 1, 500, 999}
LongDurations == {3599999, 3600000, 4505000}
Durations ==
    { sec * 1000 + r : sec \in 0..MaxSeconds, r \in Remainders } \cup LongDurations

\* str(n) for n >= 0
RECURSIVE Digits(_)
Digits(n) == IF n < 10 THEN <<n>> ELSE Append(Digits(n \div 10), n % 10)
\* f"{n:02d}" for n >= 0
TwoDigits(n) == IF n < 10 THEN <<0, n>> ELSE Digits(n)
\* the number a digit sequence writes
RECURSIVE NumberOf(_)
NumberOf(ds) ==
    IF ds = <<>> THEN 0 ELSE 10 * NumberOf(SubSeq(ds, 1, Len(ds) - 1)) + ds[Len(ds)]

\* The variant rounds the milliseconds to the nearest second.
FormatDurationRounded(ms) ==
    LET total_seconds == (ms + 500) \div 1000
    IN [minutes |-> Digits(total_seconds \div 60), seconds |-> TwoDigits(total_seconds % 60)]

\* timedelta(milliseconds=ms), then int(total_seconds()), // 60 and % 60;
\* the text is minutes, ":", seconds.
FormatDuration(ms) ==
    LET total_seconds == ms \div 1000
        minutes == total_seconds \div 60
        seconds == total_seconds % 60
    IN [minutes |-> Digits(minutes), seconds |-> TwoDigits(seconds)]

min_padding == 2
max_label_width == 12

\* The variant leaves out the floor of min_padding.
FormatInfoLineNoFloor(label, value) ==
    [label |-> label, padding |-> max_label_width - Len(label) + min_padding,
     value |-> value]

\* BOLD label RESET, `padding` spaces, colour value RESET.
FormatInfoLine(label, value) ==
    LET label_width == Len(label)
        padding == max_label_width - label_width + min_padding
    IN [label |-> label,
        padding |-> IF padding < min_padding THEN min_padding ELSE padding,
        value |-> value]

Labels == { [i \in 1..n |-> 1] : n \in 0..MaxLabelLen }

FormatInit ==
    /\ fmt_arg \in { [fn |-> "_format_duration", ms |-> ms] : ms \in Durations }
              \cup { [fn |-> "_format_info_line", label |-> l] : l \in Labels }
    /\ fmt_result = NoCall

FormatDurationCall ==
    /\ fmt_arg.fn = "_format_duration" /\ fmt_result = NoCall
    /\ fmt_result' = [fn |-> fmt_arg.fn, text |-> FormatDuration(fmt_arg.ms)]
    /\ UNCHANGED <<fmt_arg, parseVars, configVars, panelVars,
                   renderVars, searchVars, clientVars, composeVars>>

FormatInfoLineCall ==
    /\ fmt_arg.fn = "_format_info_line" /\ fmt_result = NoCall
    /\ fmt_result' = [fn |-> fmt_arg.fn, text |-> FormatInfoLine(fmt_arg.label, <<1>>)]
    /\ UNCHANGED <<fmt_arg, parseVars, configVars, panelVars,
                   renderVars, searchVars, clientVars, composeVars>>

C16_PaddingTwelve ==
    fmt_result.fn = "_format_info_line" =>
        fmt_result.text.padding = Max(2, 12 - Len(fmt_arg.label))

\* C16, amended: the padding between label and value is
\* max(2, 14 - len(label)) spaces, so that values start at column 14 for
\* every label of at most 12 characters.
C16_PaddingFourteen ==
    fmt_result.fn = "_format_info_line" =>
        /\ fmt_result.text.padding = Max(2, 14 - Len(fmt_arg.label))
        /\ fmt_result.text.label = fmt_arg.label
C16_Witness ==
    /\ fmt_result.fn = "_format_info_line" /\ Len(fmt_arg.label) = 13
    /\ fmt_result.text.padding = 2

(***************************************************************************)
(* DisplayFormatter.display_track, display_album and display_artist: the   *)
(* lookups they issue and the info panel they build.  A panel line is its  *)
(* label and what it shows; a lookup's outcome is the list it returns or   *)
(* an exception.                                                           *)
(***************************************************************************)
GenresShown == 2
TopTracksShown == 5
GenreLists == {<<>>, <<"rock">>, <<"rock", "pop">>, <<"rock", "pop", "jazz">>}
ArtistGenreLists == {<<>>, <<"glam">>, <<"glam", "opera", "metal">>}
ArtistLists == {<<>>, <<"a1">>, <<"a1", "a2">>}
ListLens == {0, 3, 6}
ListOf(n) == [i \in 1..n |-> i]

Raised == [ok |-> FALSE, value |-> <<>>]
Returned(v) == [ok |-> TRUE, value |-> v]
GenreOutcomes == {Raised} \cup { Returned(g) : g \in ArtistGenreLists }
ListOutcomes == {Raised} \cup { Returned(ListOf(n)) : n \in ListLens }

InfoLine(label, value) == [label |-> label, value |-> value]
Lookup(call, arg, result) ==
    [call |-> call, arg |-> arg, ok |-> result.ok, value |-> result.value]

\* genres[:n]
FirstN(list, n) == SubSeq(list, 1, Min(n, Len(list)))

\* The variant shows every genre.
DisplayGenresAll(genres) == genres
\* display_genres = genres[:2]
DisplayGenres(genres) == FirstN(genres, GenresShown)

\* `if genres:` the Genres line
GenresLines(genres) ==
    IF genres # <<>> THEN <<InfoLine("Genres", DisplayGenres(genres))>> ELSE <<>>

\* blank line, heading and the first five tracks, if there are tracks
TopTracksLines(tracks) ==
    IF tracks # <<>>
    THEN <<InfoLine("", <<>>), InfoLine("Top Tracks", <<>>)>>
         \o [i \in 1..Min(TopTracksShown, Len(tracks)) |-> InfoLine("track", <<tracks[i]>>)]
    ELSE <<>>

\* `if not genres and artists and client:` get_artist(artists[0].id)
GenreLookupIssued(own, artists, has_client) ==
    own = <<>> /\ artists # <<>> /\ has_client
GenreLookups(own, artists, has_client, result) ==
    IF GenreLookupIssued(own, artists, has_client)
    THEN <<Lookup("get_artist", artists[1], result)>> ELSE <<>>
ResolveGenres(own, artists, has_client, result) ==
    IF GenreLookupIssued(own, artists, has_client) /\ result.ok
    THEN result.value ELSE own

TrackLabels ==
    <<"Name", "Artist", "Album", "Duration", "Track", "Explicit", "Released", "Popularity">>
AlbumLabels ==
    <<"Name", "Artist", "Type", "Released", "Tracks", "Duration", "Popularity">>
ArtistLabels == <<"Name", "Followers", "Popularity">>
BaseLines(labels) == [i \in 1..Len(labels) |-> InfoLine(labels[i], <<>>)]

TrackPanel(e, result) ==
    BaseLines(TrackLabels)
    \o GenresLines(ResolveGenres(e.genres, e.artists, e.client, result))

AlbumPanel(e, result) ==
    BaseLines(AlbumLabels)
    \o GenresLines(ResolveGenres(e.genres, e.artists, e.client, result))
    \o (IF e.label # "" THEN <<InfoLine("Label", <<e.label>>)>> ELSE <<>>)
    \o TopTracksLines(e.tracks)

\* The three enrichment calls share one try block: a call is issued only
\* if the calls before it returned, top_tracks is assigned as soon as its
\* call returns, and the two counts only after all three returned.
ArtistLookups(e, top, albums, singles) ==
    IF ~e.client THEN <<>>
    ELSE <<Lookup("get_artist_top_tracks", "", top)>>
         \o (IF top.ok THEN <<Lookup("get_artist_albums", "album", albums)>> ELSE <<>>)
         \o (IF top.ok /\ albums.ok
             THEN <<Lookup("get_artist_albums", "single", singles)>> ELSE <<>>)
ArtistPanel(e, top, albums, singles) ==
    LET top_tracks == IF e.client /\ top.ok THEN top.value ELSE <<>>
        all == e.client /\ top.ok /\ albums.ok /\ singles.ok
        albums_count == IF all THEN Len(albums.value) ELSE 0
        singles_count == IF all THEN Len(singles.value) ELSE 0
    IN BaseLines(ArtistLabels)
       \o GenresLines(e.genres)
       \o (IF albums_count > 0 THEN <<InfoLine("Albums", <<albums_count>>)>> ELSE <<>>)
       \o (IF singles_count > 0 THEN <<InfoLine("Singles", <<singles_count>>)>> ELSE <<>>)
       \o TopTracksLines(top_tracks)

Entities ==
    { [fn |-> "display_track", genres |-> g, artists |-> a, client |-> c] :
        g \in GenreLists, a \in ArtistLists, c \in BOOLEAN }
    \cup { [fn |-> "display_album", genres |-> g, artists |-> a, client |-> c,
            label |-> l, tracks |-> ListOf(n)] :
             g \in GenreLists, a \in ArtistLists, c \in BOOLEAN,
             l \in {"", "EMI"}, n \in ListLens }
    \cup { [fn |-> "display_artist", genres |-> g, client |-> c] :
             g \in GenreLists, c \in BOOLEAN }

PanelInit == entity \in Entities /\ lookups = <<>> /\ panel = <<>>

DisplayTrack ==
    /\ entity.fn = "display_track" /\ panel = <<>>
    /\ \E result \in GenreOutcomes :
         /\ lookups' = GenreLookups(entity.genres, entity.artists, entity.client, result)
         /\ panel' = TrackPanel(entity, result)
    /\ UNCHANGED <<entity, parseVars, configVars, formatVars,
                   renderVars, searchVars, clientVars, composeVars>>

DisplayAlbum ==
    /\ entity.fn = "display_album" /\ panel = <<>>
    /\ \E result \in GenreOutcomes :
         /\ lookups' = GenreLookups(entity.genres, entity.artists, entity.client, result)
         /\ panel' = AlbumPanel(entity, result)
    /\ UNCHANGED <<entity, parseVars, configVars, formatVars,
                   renderVars, searchVars, clientVars, composeVars>>

DisplayArtist ==
    /\ entity.fn = "display_artist" /\ panel = <<>>
    /\ \E top \in ListOutcomes, albums \in ListOutcomes, singles \in ListOutcomes :
         /\ lookups' = ArtistLookups(entity, top, albums, singles)
         /\ panel' = ArtistPanel(entity, top, albums, singles)
    /\ UNCHANGED <<entity, parseVars, configVars, formatVars,
                   renderVars, searchVars, clientVars, composeVars>>

(***************************************************************************)
(* Properties of the parse functions.                                      *)
(***************************************************************************)
\* What a field holds when its key is absent from the payload.
ImageDefaults == [url |-> "", height |-> 0, width |-> 0]
ArtistDefaults ==
    [id |-> "", name |-> "", images |-> <<>>, genres |-> <<>>, popularity |-> 0,
     followers |-> [total |-> 0], external_urls |-> [spotify |-> ""],
     type |-> "artist"]
AlbumDefaults ==
    [id |-> "", name |-> "", artists |-> <<>>, images |-> <<>>,
     release_date |-> "", release_date_precision |-> "", total_tracks |-> 0,
     genres |-> <<>>, popularity |-> 0, album_type |-> "", album_group |-> None,
     label |-> "", external_urls |-> [spotify |-> ""],
     tracks |-> [none |-> TRUE, items |-> <<>>]]
TrackDefaults ==
    [id |-> "", name |-> "", artists |-> <<>>, album |-> AlbumDefaults,
     duration_ms |-> 0, popularity |-> 0, track_number |-> 0, disc_number |-> 0,
     explicit |-> FALSE, preview_url |-> None, external_urls |-> [spotify |-> ""],
     available_markets |-> <<>>]
Defaults(fn) ==
    CASE fn = "_parse_image" -> ImageDefaults
      [] fn = "_parse_artist" -> ArtistDefaults
      [] fn = "_parse_album" -> AlbumDefaults
      [] OTHER -> TrackDefaults

Parsed == record # NoCall
AlbumHasNull(a) == a.album_group = None \/ a.label = None \/ a.tracks.none
TrackHasNull(t) == t.preview_url = None \/ AlbumHasNull(t.album)

\* C11 as stated: whatever keys are absent, no field of the record handed to
\* the Formatter is null.
C11_NoFieldNull ==
    /\ (Parsed /\ record.fn = "_parse_album") => ~AlbumHasNull(record.value)
    /\ (Parsed /\ record.fn = "_parse_track") => ~TrackHasNull(record.value)

\* C11, amended: every parse function returns a record for every subset of
\* absent keys, and the field of every absent key holds its default: the
\* empty string, the empty list, 0, false, an all-default nested record, or
\* "artist" for Artist.type; except that Album.album_group and
\* Track.preview_url are None, and Album.tracks is None unless the payload
\* has 'tracks' with 'items'.
C11_AbsentKeysDefault ==
    Parsed =>
        /\ record.fn = data.fn
        /\ \A k \in DOMAIN Defaults(data.fn) \ DOMAIN data.d :
               record.value[k] = Defaults(data.fn)[k]
        /\ (data.fn = "_parse_album" /\ "tracks" \in DOMAIN data.d)
              => (record.value.tracks.none <=> "items" \notin DOMAIN data.d["tracks"])
C11_Witness ==
    /\ Parsed /\ record.fn = "_parse_album"
    /\ DOMAIN data.d = {"id", "name"}
    /\ record.value.label = "" /\ record.value.album_group = None
    /\ record.value.tracks.none

InitParse ==
    /\ RenderIdle /\ SearchIdle /\ ClientIdle /\ ComposeIdle
    /\ ParseInit /\ ConfigIdle /\ FormatIdle /\ PanelIdle
ParseNext == Parse
SpecParse == InitParse /\ [][ParseNext]_vars

InitConfig ==
    /\ RenderIdle /\ SearchIdle /\ ClientIdle /\ ComposeIdle
    /\ ParseIdle /\ ConfigInit /\ FormatIdle /\ PanelIdle
ConfigNext == Load
SpecConfig == InitConfig /\ [][ConfigNext]_vars

InitFormat ==
    /\ RenderIdle /\ SearchIdle /\ ClientIdle /\ ComposeIdle
    /\ ParseIdle /\ ConfigIdle /\ FormatInit /\ PanelIdle
FormatNext == FormatDurationCall \/ FormatInfoLineCall
SpecFormat == InitFormat /\ [][FormatNext]_vars

InitPanel ==
    /\ RenderIdle /\ SearchIdle /\ ClientIdle /\ ComposeIdle
    /\ ParseIdle /\ ConfigIdle /\ FormatIdle /\ PanelInit
PanelNext == DisplayTrack \/ DisplayAlbum \/ DisplayArtist
SpecPanel == InitPanel /\ [][PanelNext]_vars

SpecRender == InitRender /\ [][RenderNext]_vars
SpecSearch == InitSearch /\ [][SearchNext]_vars
SpecClient == InitClient /\ [][ClientNext]_vars
SpecCompose == InitCompose /\ [][ComposeNext]_vars

(***************************************************************************)
(* Properties of the renderer (SpecRender).                                *)
(***************************************************************************)

\* C1: render_image_lines never raises, whatever the URL and whatever the
\* probe, the external renderer, the download and the decode do.
C1_NeverRaises == outcome # "raised"

\* C2: with a URL set, the returned list has exactly `height` lines, all of
\* the same printable width, whichever path produced it.
C2_HeightLinesOfEqualWidth ==
    (outcome = "returned" /\ image_url # "") =>
        /\ Len(lines) = height
        /\ \A i, j \in 1..Len(lines) : lines[i].w = lines[j].w

\* The call reached the fallback stage (no external renderer, or it failed)
\* and the download or the decode failed there.
FallbackStageFailed ==
    /\ image_url # ""
    /\ \/ env.probe \in {"CalledProcessError", "FileNotFoundError"}
       \/ env.probe = "ok" /\ (env.temp = "fail" \/ env.chafa = "fail")
    /\ (env.download = "fail" \/ env.decode = "fail")

\* The fixed grid: the 8 box lines, then 12 blank lines of 33 columns.
FixedPlaceholderGrid == BoxLines \o [i \in 1..12 |-> Line("blank", 33)]

C14_NoTempFileLeft == temp_files = 0

(***************************************************************************)
(* Properties of the search command (SpecSearch).                          *)
(***************************************************************************)

\* C4: once hidden, the cursor is shown again on every way out of
\* handle_search, keyboard interrupt included.
C4_CursorRestored == pc = "done" => cursor = "shown"

Prefix(s, t) == Len(s) <= Len(t) /\ \A i \in 1..Len(s) : s[i] = t[i]
Displays == { output[i] : i \in { j \in 1..Len(output) : output[j].msg = "display" } }
NoResults == Message("No results found for", "none")
Cancelled == Message("Operation cancelled.", "none")

\* C6 as stated: kinds in order, each at most once, and the first kind
\* whose search returns a non-empty result is displayed and ends the search.
C6_FirstHitDisplayed ==
    search_type = "auto" =>
        /\ Prefix(searched, Kinds)
        /\ \A i \in 1..Len(attempts) :
             attempts[i] \notin {"empty", "search_failed"} =>
                 /\ i = Len(searched)
                 /\ Display(Kinds[i]) \in Displays

\* C6 amended: kinds in order, each at most once; the first kind whose
\* attempt succeeds (non-empty search, fetch and display without exception)
\* is the one displayed and no later kind is searched; every earlier kind's
\* search was empty or its attempt failed.
C6_FirstSuccessDisplayed ==
    search_type = "auto" =>
        /\ Prefix(searched, Kinds)
        /\ Len(attempts) = Len(searched)
        /\ \A i \in 1..Len(attempts) :
             /\ attempts[i] = "displayed" =>
                  i = Len(searched) /\ Displays = {Display(Kinds[i])}
             /\ i < Len(attempts) => attempts[i] \in {"empty"} \cup Failures
        /\ Displays # {} => attempts[Len(attempts)] = "displayed"

C6_Witness ==
    /\ search_type = "auto" /\ pc = "done"
    /\ searched = Kinds
    /\ attempts = <<"empty", "empty", "displayed">>
    /\ output = <<Display("artist")>>

\* C7: in auto mode no failure of an attempt reaches the caller, and when
\* all three kinds yield nothing the only output of the search is "No
\* results found for", nothing is displayed and the process exits 0.
C7_AutoSwallowsFailures ==
    search_type = "auto" =>
        /\ pending # "Exception"
        /\ pending # "SystemExit1"
        /\ (Len(attempts) = 3 /\ \A i \in 1..3 : attempts[i] # "displayed") =>
             /\ Displays = {}
             /\ output \in {<<NoResults>>, <<NoResults, Cancelled>>}
             /\ pc = "done" => exit_status = 0

C7_Witness ==
    /\ search_type = "auto" /\ pc = "done"
    /\ attempts = <<"search_failed", "fetch_failed", "display_failed">>
    /\ output = <<NoResults>> /\ exit_status = 0

\* C8: in specific mode one search of the requested kind is issued; an
\* empty result prints the kind's "No <kind>s found for" message and ends
\* normally; a failure of the search, the fetch or the display prints
\* "Search failed" and exits 1, and is never reported as an empty result.
C8_SpecificSurfacesFailures ==
    search_type # "auto" =>
        /\ Len(searched) <= 1 /\ Len(attempts) = Len(searched)
        /\ pc = "returned" => Len(searched) = 1
        /\ searched # <<>> =>
             /\ searched = <<search_type>>
             /\ attempts[1] = "empty" =>
                  /\ output[1] = Message("No <kind>s found for", search_type)
                  /\ pending # "SystemExit1"
                  /\ pc = "done" => exit_status = 0
             /\ attempts[1] \in Failures =>
                  /\ output = <<Message("Search failed", "none")>>
                  /\ pc \in {"finally", "done"}
                  /\ pending = "SystemExit1"
                  /\ pc = "done" => exit_status = 1

C8_Witness ==
    /\ search_type = "album" /\ pc = "done"
    /\ searched = <<"album">> /\ attempts = <<"fetch_failed">>
    /\ exit_status = 1

\* C9: the size handed to the DisplayFormatter, and the renderer's width and
\* height, equal min(35, max(15, s)) for the requested size s.
C9_SizeClamped ==
    width # 0 =>
        /\ width = Min(35, Max(15, args_size))
        /\ height = width /\ image_size = width
        /\ width \in 15..35
        /\ args_size < 15 => width = 15
        /\ args_size > 35 => width = 35
        /\ args_size \in 15..35 => width = args_size

C9_Witness == args_size = 40 /\ width = 35 /\ height = 35 /\ pc = "searching"

(***************************************************************************)
(* Properties of the token cache (SpecClient).                             *)
(***************************************************************************)

\* C5: a token exchange is issued only when no token is cached or the time
\* has reached the cached expiry; an unexpired cached token is reused.
C5_ExchangeOnlyWhenExpired ==
    [][exchanges' # exchanges => (access_token = 0 \/ now >= token_expiry)]_vars

C5_Witness ==
    /\ exchanges >= 2 /\ access_token = exchanges
    /\ ~last.exchanged /\ last.sent /\ last.bearer = access_token
    /\ now < token_expiry

\* C21: a token exchange answered with a non-200 status raises, leaves the
\* cached token and expiry as they were and sends no data request; the
\* next data request attempts the exchange again; the token changes only
\* on an exchange answered with 200; and every data request sent carries
\* the cached, non-null token.  (A step with the clock standing still is a
\* step of _make_request.)
C21_FailedExchange ==
    [][now' = now =>
         /\ (last'.exchanged /\ last'.auth_status # 200) =>
               /\ last'.raised = "auth" /\ ~last'.sent
               /\ access_token' = access_token /\ token_expiry' = token_expiry
         /\ last.raised = "auth" => (last'.exchanged /\ exchanges' = exchanges + 1)
         /\ access_token' # access_token =>
               (last'.exchanged /\ last'.auth_status = 200)
         /\ last'.sent => (last'.bearer # 0 /\ last'.bearer = access_token')
      ]_vars
C21_Witness ==
    /\ access_token = 1 /\ token_expiry > 0 /\ exchanges = 3
    /\ last.raised = "auth" /\ last.auth_status = 401 /\ ~last.sent

(***************************************************************************)
(* Properties of the compositor (SpecCompose).                             *)
(***************************************************************************)
RowsOfKind(k) == { i \in 1..Len(printed) : printed[i].kind = k }

\* C10: with links, max(len(image_lines), len(info_lines)) - 2 content rows
\* are printed, then one link row, then the remaining image rows, and the
\* rows printed number max(len(image_lines), len(info_lines)).
C10_RowCount ==
    (printed # <<>> /\ links # <<>>) =>
        LET max_lines == Max(Len(image_lines), Len(info_lines)) IN
        /\ Cardinality(RowsOfKind("content")) = max_lines - 2
        /\ Cardinality(RowsOfKind("link")) = 1
        /\ Len(printed) = max_lines

IsPrinted(x) == x # 0
LinkRow == printed[CHOOSE i \in RowsOfKind("link") : TRUE]
CatalogLinks == { i \in 1..Len(links) : links[i].id = "catalog" }

\* The links a display supplies: the catalog link, whose text 'Spotify'
\* always matches, with or without an image link.
DisplayLinks == CatalogLinks # {} /\ \A i \in CatalogLinks : links[i].spotify

\* C15: with two distinct links, whatever their URLs, the link row holds
\* each of them once, the catalog link first; with one link, that link
\* alone.
C15_LinkRowHoldsEachLink ==
    (printed # <<>> /\ DisplayLinks)
    => IF Len(links) = 2
       THEN /\ Len(LinkRow.right) = 2
            /\ LinkRow.right[1].id = "catalog"
            /\ LinkRow.right[2].id = "image"
       ELSE LinkRow.right = <<links[1]>>

\* The image lines and the info lines that the rows show, in printing order.
ImagePrinted ==
    SelectSeq([i \in 1..Len(printed) |-> printed[i].image], IsPrinted)
InfoPrinted ==
    SelectSeq([i \in 1..Len(printed) |->
                 IF printed[i].kind = "content" THEN printed[i].right[1] ELSE 0],
              IsPrinted)

\* C19: with or without links, every image line is printed exactly once and
\* in its original order: content rows, then the link row's image line,
\* then the remaining image rows.
C19_ImageIntact ==
    printed # <<>> =>
        /\ ImagePrinted = image_lines
        /\ \A i, j \in 1..Len(printed) :
              (i < j /\ printed[j].kind = "content") => printed[i].kind = "content"
        /\ \A i, j \in 1..Len(printed) :
              (i < j /\ printed[i].kind = "rest") => printed[j].kind = "rest"
C19_Witness ==
    /\ printed # <<>> /\ links = <<>>
    /\ Len(image_lines) = MaxSize /\ Len(info_lines) = MinInfoLines
    /\ Cardinality(RowsOfKind("rest")) = 2
    /\ ImagePrinted = image_lines

\* C20: every info line of the panel is printed exactly once, for every
\* image height and every panel length the displays produce.
C20_EveryInfoLinePrinted ==
    (printed # <<>> /\ DisplayLinks) => InfoPrinted = info_lines

(***************************************************************************)
(* Properties of the info panels (SpecPanel).                              *)
(***************************************************************************)
Displayed == panel # <<>>
LinesLabelled(l) == { i \in 1..Len(panel) : panel[i].label = l }
LookupFailed == \E i \in 1..Len(lookups) : ~lookups[i].ok

\* C17: when an enrichment call of display_artist fails, the display is
\* still produced and shows no Top Tracks section, no Albums line and no
\* Singles line, whichever call failed.
C17_FailureEmptiesEnrichment ==
    (entity.fn = "display_artist" /\ Displayed /\ LookupFailed) =>
        /\ LinesLabelled("Top Tracks") = {}
        /\ LinesLabelled("track") = {}
        /\ LinesLabelled("Albums") = {}
        /\ LinesLabelled("Singles") = {}

\* The genres display_track and display_album resolve: the album's own, else
\* the first artist's when that lookup was issued and returned, else none.
GenreLookupOk == lookups # <<>> /\ lookups[1].ok
Resolved ==
    IF entity.genres # <<>> THEN entity.genres
    ELSE IF GenreLookupOk THEN lookups[1].value ELSE <<>>

\* C18: in display_track and display_album the artist-genre lookup is
\* issued only when the album's genres are empty, an artist exists and a
\* client is given, and it asks for the first artist; the panel is built
\* whether or not the lookup fails; the Genres line is there if and only if
\* the resolved genres are non-empty, and shows their first two entries.
C18_GenresResolved ==
    (entity.fn \in {"display_track", "display_album"} /\ Displayed) =>
        /\ Len(lookups) <= 1
        /\ lookups # <<>> =>
              /\ entity.genres = <<>> /\ entity.artists # <<>> /\ entity.client
              /\ lookups[1].call = "get_artist" /\ lookups[1].arg = entity.artists[1]
        /\ Cardinality(LinesLabelled("Genres")) <= 1
        /\ LinesLabelled("Genres") # {} <=> Resolved # <<>>
        /\ \A i \in LinesLabelled("Genres") :
              /\ Len(panel[i].value) <= 2
              /\ panel[i].value = SubSeq(Resolved, 1, Len(panel[i].value))
              /\ Len(panel[i].value) = 2 \/ panel[i].value = Resolved
C18_Witness ==
    /\ entity.fn = "display_track" /\ Displayed
    /\ entity.genres = <<>> /\ GenreLookupOk
    /\ \E i \in LinesLabelled("Genres") : panel[i].value = <<"glam", "opera">>

====
